---- MODULE Spec2Model ----
(***************************************************************************)
(* Twudder (caldera-examples): the Persistence Adapter and the Shared Feed *)
(* State of twudderResources (setupDatabase, the notification handler and  *)
(* the useMoos reducer), with the PostgreSQL store they talk to, and the   *)
(* two pure functions of the Presentation Layer (the Moo tokenizer and the *)
(* Feed filter).                                                           *)
(***************************************************************************)
EXTENDS Integers, Sequences, FiniteSets, TLC

\* ------------------------------------------------------------------ bounds
\* Largest value the serial sequence moos.id hands out (total INSERTs tried).
MaxId == 3
\* Longest moo text handed to the tokenizer.
MaxText == 5
\* Most parameters in a query string handed to the feed filter.
MaxParams == 2
\* Most calls of setupDatabase.
MaxSetups == 2
\* Most NOTIFY statements other sessions run by hand.
MaxNotify == 2

\* ------------------------------------------------------------ the store
VARIABLES
    accounts,     \* table accounts: username -> [name, pw_hash]
    rows,         \* table moos: the set of committed rows
    nextId,       \* the serial sequence behind moos.id
    clock,        \* the store's now()
    listening,    \* the adapter's connection has executed LISTEN moo
    notifs        \* NotificationResponse messages on their way to the client,
                  \* in commit order; the store sends one some time after the
                  \* commit, independently of the responses to the queries

\* ----------------------------------------------------------- the adapter
VARIABLES
    pc,           \* position of setupDatabase
    sessionPID,   \* the adapter's recorded pg_backend_pid()
    loadResult,   \* rows of the initial SELECT, between the store and the client
    feed,         \* moos: the value of the shared resource
    queue,        \* the connection's queries in flight, in issue order
    outcome,      \* how the most recently settled reducer / handler promise ended
    handlers,     \* number of listeners registered with client.on("notification")
    setups,       \* number of calls of setupDatabase so far
    sent          \* number of NOTIFY statements other sessions ran by hand

\* ------------------------------------------------- the presentation layer
VARIABLES
    tText,        \* Moo: the text handed to the tokenizer
    tOut,         \* Moo: tokenizedMooText
    tDone,        \* Moo: the reduce has run
    fFilter,      \* Feed: location.search
    fMoo,         \* Feed: the post handed to filterMoos
    fShown,       \* Feed: filterMoos' result
    fDone         \* Feed: filterMoos has run

\* ------------------------------------------------------ the account calls
VARIABLES
    call          \* the latest createAccount / authenticate / doesUsernameExist
                  \* call: its arguments, what it returned and how it failed

storeVars == <<accounts, rows, nextId, clock, listening, notifs>>
adapterVars == <<pc, sessionPID, loadResult, feed, queue, outcome, handlers, setups>>
tokVars == <<tText, tOut, tDone>>
filterVars == <<fFilter, fMoo, fShown, fDone>>
apiVars == <<call>>
sessionVars == <<sent>>
vars == <<storeVars, adapterVars, tokVars, filterVars, apiVars, sessionVars>>

\* ------------------------------------------------------------- sessions
\* pg_backend_pid() of the adapter's connection and of another process's.
OwnBackend == "pid_own"
OtherBackend == "pid_other"
Undefined == "undefined"

\* ------------------------------------------------------- pgcrypto
\* gen_salt('bf'): a setting that carries a fresh salt and no digest
GenSalt(s) == [salt |-> s, digest |-> ""]

\* crypt(password, setting): the hash of password under the salt of setting,
\* which is a gen_salt() value or an earlier hash; the hash carries its salt
Crypt(password, setting) ==
    [salt |-> setting.salt, digest |-> setting.salt \o "$" \o password]

\* -------------------------------------------------------------- inputs
\* accounts that exist in the store when the adapter starts
InitialAccounts ==
    [u \in {"alice", "bob"} |->
        [name |-> IF u = "alice" THEN "Alice" ELSE "Bob",
         pw_hash |-> Crypt("pw_" \o u, GenSalt("s1"))]]

\* toInsert values the presentation layer dispatches: a post by a logged-in
\* account (its display name as the session remembers it) and a post whose
\* author references no account
LocalInputs ==
    { [account |-> [username |-> "alice", name |-> "Al"],
       body |-> "hi @bob #t", tags |-> <<"t">>, mentions |-> <<"bob">>],
      [account |-> [username |-> "ghost", name |-> "Ghost"],
       body |-> "boo", tags |-> <<>>, mentions |-> <<>>] }

\* posts written by another process connected to the same store
RemoteInputs ==
    { [username |-> "bob", body |-> "moo", tags |-> <<>>, mentions |-> <<>>] }

\* --------------------------------------------------- NEW.id::TEXT, parseInt
Digits == <<"0", "1", "2", "3", "4", "5", "6", "7", "8", "9">>

RECURSIVE IdToText(_)
IdToText(n) ==
    IF n < 10 THEN <<Digits[n + 1]>>
    ELSE IdToText(n \div 10) \o <<Digits[(n % 10) + 1]>>

DigitValue(c) == (CHOOSE i \in 1..10 : Digits[i] = c) - 1
IsDigit(c) == \E i \in 1..10 : Digits[i] = c

\* parseInt of a text that starts with no digit; no row has this id
NaN == -1

RECURSIVE ParseDigits(_, _)
ParseDigits(s, acc) ==
    IF s = <<>> \/ ~IsDigit(Head(s)) THEN acc
    ELSE ParseDigits(Tail(s), 10 * acc + DigitValue(Head(s)))

ParseInt(s) ==
    IF s = <<>> \/ ~IsDigit(Head(s)) THEN NaN ELSE ParseDigits(s, 0)

\* ------------------------------------------------------------- queries
\* the table without its REFERENCES clause
ForeignKeyHolds_Unchecked(username) == TRUE

\* moos.username REFERENCES accounts (username)
ForeignKeyHolds(username) == username \in DOMAIN accounts

MapSeq(Op(_), s) == [i \in 1..Len(s) |-> Op(s[i])]

\* MOO_FIELDS of a moos row joined with its account
JoinedRow(r) ==
    [id |-> r.id, body |-> r.body, tags |-> r.tags, mentions |-> r.mentions,
     account_username |-> r.username, account_name |-> accounts[r.username].name]

\* SELECT MOO_FIELDS FROM <rs> JOIN accounts ON accounts.username = <rs>.username:
\* an inner join, a row without its account yields nothing
JoinAccounts(rs) ==
    MapSeq(JoinedRow, SelectSeq(rs, LAMBDA r : r.username \in DOMAIN accounts))

RECURSIVE OrderByCreatedAt(_)
OrderByCreatedAt(S) ==
    IF S = {} THEN <<>>
    ELSE LET first == CHOOSE r \in S : \A q \in S : r.created_at <= q.created_at
         IN  <<first>> \o OrderByCreatedAt(S \ {first})

\* the initial SELECT with ORDER by moos.created_at DESC
SelectAllMoos_NewestFirst ==
    LET asc == JoinAccounts(OrderByCreatedAt(rows)) IN
    [i \in 1..Len(asc) |-> asc[Len(asc) + 1 - i]]

\* SELECT ... FROM moos JOIN accounts ... ORDER by moos.created_at ASC
SelectAllMoos == JoinAccounts(OrderByCreatedAt(rows))

\* SELECT ... FROM moos JOIN accounts ... WHERE id = <id>
SelectMooById(id) == JoinAccounts(OrderByCreatedAt({r \in rows : r.id = id}))

\* the row an INSERT into moos builds: id and created_at from their defaults
NewMooRow(username, body, tags, mentions, backend) ==
    [id |-> nextId, username |-> username, body |-> body, tags |-> tags,
     mentions |-> mentions, created_at |-> clock, backend |-> backend]

\* trigger moo_inserted: pg_notify('moo', NEW.id::TEXT), queued for every
\* connection that listens on the channel
NotifyMoo(row) ==
    IF listening
    THEN Append(notifs, [channel |-> "moo", payload |-> IdToText(row.id),
                         processId |-> row.backend])
    ELSE notifs

\* INSERT into moos (username, body, tags, mentions) VALUES (...) by `backend`:
\* the defaults are evaluated (the sequence advances) before the foreign key
\* is checked; a row that passes is committed and its trigger fires
InsertMoo(username, body, tags, mentions, backend) ==
    LET row == NewMooRow(username, body, tags, mentions, backend) IN
    /\ nextId' = nextId + 1
    /\ clock' = clock + 1
    /\ IF ForeignKeyHolds(username)
       THEN rows' = rows \cup {row} /\ notifs' = NotifyMoo(row)
       ELSE rows' = rows /\ notifs' = notifs
    /\ UNCHANGED <<accounts, listening>>

\* ------------------------------------------------------------- adapter
\* rowToMooObject with the two account columns exchanged
rowToMooObject_AccountSwapped(row) ==
    [id |-> row.id,
     account |-> [username |-> row.account_name, name |-> row.account_username],
     body |-> row.body, tags |-> row.tags, mentions |-> row.mentions]

rowToMooObject(row) ==
    [id |-> row.id,
     account |-> [username |-> row.account_username, name |-> row.account_name],
     body |-> row.body, tags |-> row.tags, mentions |-> row.mentions]

\* the handler without the comparison with sessionPID
HandlerIgnores_ChannelOnly(msg) == msg.channel /= "moo"

\* the notification handler's first line
HandlerIgnores(msg) == msg.channel /= "moo" \/ msg.processId = sessionPID

\* the reducer putting the new rows first
MoosReducer_Prepends(prevMoos, resultRows) ==
    [i \in 1..Len(resultRows) |->
        [id |-> resultRows[i].id,
         account |-> [username |-> resultRows[i].account_username,
                      name |-> resultRows[i].account_name],
         body |-> resultRows[i].body, tags |-> resultRows[i].tags,
         mentions |-> resultRows[i].mentions]] \o prevMoos

\* the value the useMoos reducer returns
MoosReducer(prevMoos, resultRows) == prevMoos \o MapSeq(rowToMooObject, resultRows)

\* no account call has been made
NoCall ==
    [op |-> "none", username |-> "", name |-> "", password |-> "",
     result |-> <<>>, error |-> ""]

Init ==
    /\ accounts = InitialAccounts
    /\ rows = {}
    /\ nextId = 1
    /\ clock = 1
    /\ listening = FALSE
    /\ notifs = <<>>
    /\ pc = "start"
    /\ sessionPID = Undefined
    /\ loadResult = <<>>
    /\ feed = <<>>
    /\ queue = <<>>
    /\ outcome = "none"
    /\ handlers = 0
    /\ setups = 1
    /\ sent = 0
    /\ tText = <<>> /\ tOut = <<>> /\ tDone = FALSE
    /\ fFilter = <<>> /\ fMoo = Undefined /\ fShown = FALSE /\ fDone = FALSE
    /\ call = NoCall

\* setupDatabase up to LISTEN moo
SetupListen ==
    /\ pc = "start"
    /\ pc' = "listening"
    /\ listening' = TRUE
    /\ UNCHANGED <<accounts, rows, nextId, clock, notifs>>
    /\ UNCHANGED <<sessionPID, loadResult, feed, queue, outcome, handlers, setups>>
    /\ UNCHANGED <<tokVars, filterVars, apiVars, sessionVars>>

\* setupDatabase: pg_backend_pid() is recorded and the store runs the initial
\* SELECT; its rows are on their way back
SetupSelect ==
    /\ pc = "listening"
    /\ pc' = "loading"
    /\ sessionPID' = OwnBackend
    /\ loadResult' = SelectAllMoos
    /\ UNCHANGED <<storeVars, feed, queue, outcome, handlers, setups>>
    /\ UNCHANGED <<tokVars, filterVars, apiVars, sessionVars>>

\* setupDatabase: the SELECT's rows arrive, the shared resource is made and
\* the notification handler is registered
SetupFinish ==
    /\ pc = "loading"
    /\ pc' = "ready"
    /\ feed' = MapSeq(rowToMooObject, loadResult)
    /\ loadResult' = <<>>
    /\ handlers' = handlers + 1
    /\ UNCHANGED <<storeVars, sessionPID, queue, outcome, setups>>
    /\ UNCHANGED <<tokVars, filterVars, apiVars, sessionVars>>

\* another process inserts a post
RemoteInsert(p) ==
    /\ nextId <= MaxId
    /\ InsertMoo(p.username, p.body, p.tags, p.mentions, OtherBackend)
    /\ UNCHANGED <<adapterVars, tokVars, filterVars, apiVars, sessionVars>>

\* a notification reaches the client before client.on("notification") ran:
\* the event has no listener
NotificationUnheard ==
    /\ notifs /= <<>>
    /\ handlers = 0
    /\ notifs' = Tail(notifs)
    /\ UNCHANGED <<accounts, rows, nextId, clock, listening>>
    /\ UNCHANGED <<adapterVars, tokVars, filterVars, apiVars, sessionVars>>

\* the notification event: every registered handler runs up to its await
OnNotification ==
    /\ notifs /= <<>>
    /\ handlers > 0
    /\ LET msg == Head(notifs) IN
       /\ notifs' = Tail(notifs)
       /\ queue' = IF HandlerIgnores(msg) \/ msg.payload = <<>>
                   THEN queue
                   ELSE queue \o [h \in 1..handlers |->
                                     [kind |-> "select", id |-> ParseInt(msg.payload)]]
    /\ UNCHANGED <<accounts, rows, nextId, clock, listening>>
    /\ UNCHANGED <<pc, sessionPID, loadResult, feed, outcome, handlers, setups>>
    /\ UNCHANGED <<tokVars, filterVars, apiVars, sessionVars>>

\* the notification handler after its await
SelectDone ==
    /\ queue /= <<>>
    /\ Head(queue).kind = "select"
    /\ queue' = Tail(queue)
    /\ LET id == Head(queue).id
           found == IF id = NaN THEN <<>> ELSE SelectMooById(id)
       IN  IF id = NaN
           THEN feed' = feed /\ outcome' = "QueryError"
           ELSE IF found = <<>>
           THEN feed' = feed /\ outcome' = "TypeError"
           ELSE feed' = Append(feed, rowToMooObject(found[1])) /\ outcome' = "fulfilled"
    /\ UNCHANGED <<storeVars, pc, sessionPID, loadResult, handlers, setups>>
    /\ UNCHANGED <<tokVars, filterVars, apiVars, sessionVars>>

InsertsInFlight == Len(SelectSeq(queue, LAMBDA q : q.kind = "insert"))

\* a dispatch of the useMoos reducer, up to its await
Submit(toInsert) ==
    /\ handlers > 0
    /\ nextId + InsertsInFlight <= MaxId
    /\ queue' = Append(queue, [kind |-> "insert", prevMoos |-> feed, toInsert |-> toInsert])
    /\ UNCHANGED <<storeVars, pc, sessionPID, loadResult, feed, outcome, handlers, setups>>
    /\ UNCHANGED <<tokVars, filterVars, apiVars, sessionVars>>

\* the useMoos reducer after its await: the WITH new_moo AS (INSERT ...
\* RETURNING *) SELECT ... JOIN accounts statement has run
InsertDone ==
    /\ queue /= <<>>
    /\ Head(queue).kind = "insert"
    /\ queue' = Tail(queue)
    /\ LET q == Head(queue)
           t == q.toInsert
           row == NewMooRow(t.account.username, t.body, t.tags, t.mentions, OwnBackend)
       IN  /\ InsertMoo(t.account.username, t.body, t.tags, t.mentions, OwnBackend)
           /\ IF ForeignKeyHolds(t.account.username)
              THEN /\ feed' = MoosReducer(q.prevMoos, JoinAccounts(<<row>>))
                   /\ outcome' = "fulfilled"
              ELSE /\ feed' = feed
                   /\ outcome' = "ConstraintViolation"
    /\ UNCHANGED <<pc, sessionPID, loadResult, handlers, setups>>
    /\ UNCHANGED <<tokVars, filterVars, apiVars, sessionVars>>

Next ==
    \/ SetupListen
    \/ SetupSelect
    \/ SetupFinish
    \/ \E p \in RemoteInputs : RemoteInsert(p)
    \/ NotificationUnheard
    \/ OnNotification
    \/ SelectDone
    \/ \E t \in LocalInputs : Submit(t)
    \/ InsertDone

Spec == Init /\ [][Next]_vars

\* setupDatabase is called again after it has returned, and client.connect()
\* on the connected client resolves: the schema statements and LISTEN moo run
\* a second time (IF NOT EXISTS, OR REPLACE, DROP TRIGGER IF EXISTS: the store
\* is as before)
SetupAgain ==
    /\ pc = "ready"
    /\ setups < MaxSetups
    /\ setups' = setups + 1
    /\ pc' = "listening"
    /\ UNCHANGED <<storeVars, sessionPID, loadResult, feed, queue, outcome, handlers>>
    /\ UNCHANGED <<tokVars, filterVars, apiVars, sessionVars>>

\* setupDatabase is called again and client.connect() rejects, the client
\* being connected already: the call ends at its first line
SetupAgainRejected ==
    /\ pc = "ready"
    /\ setups < MaxSetups
    /\ setups' = setups + 1
    /\ outcome' = "AlreadyConnected"
    /\ UNCHANGED <<storeVars, pc, sessionPID, loadResult, feed, queue, handlers>>
    /\ UNCHANGED <<tokVars, filterVars, apiVars, sessionVars>>

NextTwice ==
    \/ Next
    \/ SetupAgain
    \/ SetupAgainRejected

SpecTwice == Init /\ [][NextTwice]_vars

\* payloads of NOTIFY moo, '<payload>': none, not a number, the id of no row,
\* the id of a row followed by other text (parseInt reads the leading digits)
Payloads == {<<>>, <<"x">>, <<"9">>, <<"1", "x">>}

\* another session runs NOTIFY moo / pg_notify('moo', payload) itself; the
\* adapter's connection receives it once it listens on the channel
RemoteNotify(payload) ==
    /\ sent < MaxNotify
    /\ sent' = sent + 1
    /\ notifs' = IF listening
                 THEN Append(notifs, [channel |-> "moo", payload |-> payload,
                                      processId |-> OtherBackend])
                 ELSE notifs
    /\ UNCHANGED <<accounts, rows, nextId, clock, listening>>
    /\ UNCHANGED <<adapterVars, tokVars, filterVars, apiVars>>

NextNotify ==
    \/ Next
    \/ \E payload \in Payloads : RemoteNotify(payload)

SpecNotify == Init /\ [][NextNotify]_vars

\* ==================================================================
\* Persistence adapter: the account calls
\* ==================================================================
\* arguments of the account calls
Usernames == {"alice", "carol", "dave"}
DisplayNames == {"Name", "Other"}
Passwords == {"pw_alice", "pw_other"}
Salts == {"s1", "s2"}

\* accounts without its PRIMARY KEY: an insert replaces the row of the name
PrimaryKeyHolds_Unchecked(username) == TRUE

\* accounts.username PRIMARY KEY
PrimaryKeyHolds(username) == username \notin DOMAIN accounts

\* SELECT username, name FROM accounts
\* WHERE username = <username> and pw_hash = crypt(<password>, pw_hash)
SelectAccount(table, username, password) ==
    IF username \in DOMAIN table
          /\ table[username].pw_hash = Crypt(password, table[username].pw_hash)
    THEN <<[username |-> username, name |-> table[username].name]>>
    ELSE <<>>

\* authenticate accepting every password of an existing account
AuthenticateIn_AnyPassword(table, username, password) ==
    IF username \in DOMAIN table
    THEN <<[username |-> username, name |-> table[username].name]>>
    ELSE <<>>

\* authenticate's return value on the accounts table `table`: <<account>>,
\* or <<>> for undefined
AuthenticateIn(table, username, password) ==
    LET found == SelectAccount(table, username, password) IN
    IF Len(found) = 1 THEN <<found[1]>> ELSE <<>>

\* createAccount(details, password); salt is what gen_salt('bf') draws
CreateAccount(details, password, salt) ==
    /\ IF PrimaryKeyHolds(details.username)
       THEN /\ accounts' =
                  [u \in DOMAIN accounts \cup {details.username} |->
                      IF u = details.username
                      THEN [name |-> details.name,
                            pw_hash |-> Crypt(password, GenSalt(salt))]
                      ELSE accounts[u]]
            /\ call' = [op |-> "createAccount", username |-> details.username,
                        name |-> details.name, password |-> password,
                        result |-> <<>>, error |-> ""]
       ELSE /\ accounts' = accounts
            /\ call' = [op |-> "createAccount", username |-> details.username,
                        name |-> details.name, password |-> password,
                        result |-> <<>>, error |-> "ConstraintViolation"]
    /\ UNCHANGED <<rows, nextId, clock, listening, notifs>>
    /\ UNCHANGED <<adapterVars, tokVars, filterVars, sessionVars>>

\* authenticate(username, password)
Authenticate(username, password) ==
    /\ call' = [op |-> "authenticate", username |-> username, name |-> "",
                password |-> password,
                result |-> AuthenticateIn(accounts, username, password),
                error |-> ""]
    /\ UNCHANGED <<storeVars, adapterVars, tokVars, filterVars, sessionVars>>

\* doesUsernameExist(username)
DoesUsernameExist(username) ==
    /\ call' = [op |-> "doesUsernameExist", username |-> username, name |-> "",
                password |-> "",
                result |-> <<username \in DOMAIN accounts>>, error |-> ""]
    /\ UNCHANGED <<storeVars, adapterVars, tokVars, filterVars, sessionVars>>

NextAccounts ==
    \/ \E u \in Usernames, n \in DisplayNames, p \in Passwords, s \in Salts :
          CreateAccount([username |-> u, name |-> n], p, s)
    \/ \E u \in Usernames, p \in Passwords : Authenticate(u, p)
    \/ \E u \in Usernames : DoesUsernameExist(u)

SpecAccounts == Init /\ [][NextAccounts]_vars

\* ==================================================================
\* Presentation layer: the Moo tokenizer (index.tsx)
\* ==================================================================
\* Texts are sequences of characters: a letter, a digit, the underscore, a
\* punctuation mark, the two sigils, the space and a tab.
Tab == "\t"
Alphabet == {"a", "1", "_", "!", "@", "#", " ", Tab}
Texts == UNION {[1..n -> Alphabet] : n \in 0..MaxText}

\* \w of a JavaScript regular expression: [A-Za-z0-9_]
IsWordChar(c) == c \in {"a", "1", "_"}

\* w.replace(/\W/g, "")
ReplaceNonWord(w) == SelectSeq(w, IsWordChar)

\* s.startsWith(p)
StartsWith(s, p) == Len(p) <= Len(s) /\ SubSeq(s, 1, Len(p)) = p

\* s.slice(from, to) and s.slice(from), 0-based, for 0 <= from
Slice(s, from, to) == SubSeq(s, from + 1, IF to < Len(s) THEN to ELSE Len(s))
SliceFrom(s, from) == SubSeq(s, from + 1, Len(s))

\* text.split(sep) for a one-character separator
RECURSIVE Split(_, _)
Split(text, sep) ==
    IF \A i \in 1..Len(text) : text[i] /= sep THEN <<text>>
    ELSE LET i == CHOOSE k \in 1..Len(text) :
                     text[k] = sep /\ \A j \in 1..(k - 1) : text[j] /= sep
         IN  <<SubSeq(text, 1, i - 1)>> \o Split(SubSeq(text, i + 1, Len(text)), sep)

PlainText(t) == [kind |-> "text", text |-> t]
\* <span onClick={tagClick(tag, word)}>{t}</span>
ClickableSpan(t, tag, word) == [kind |-> "span", text |-> t, tag |-> tag, word |-> word]

\* the condition without w.length > 1
IsTagOrMention_AnyLength(w) ==
    /\ w /= <<>>
    /\ (w[1] = "@" \/ w[1] = "#")
    /\ StartsWith(SliceFrom(w, 1), ReplaceNonWord(w))

\* the reduce callback's condition
IsTagOrMention(w) ==
    /\ w /= <<>>
    /\ (w[1] = "@" \/ w[1] = "#")
    /\ Len(w) > 1
    /\ StartsWith(SliceFrom(w, 1), ReplaceNonWord(w))

\* the reduce callback without the rest of a marker's token
TokenStep_DropsRest(acc, w) ==
    IF IsTagOrMention(w)
    THEN LET index == Len(ReplaceNonWord(w)) + 1 IN
         acc \o << ClickableSpan(Slice(w, 0, index),
                                 IF w[1] = "@" THEN "mention" ELSE "tags",
                                 ReplaceNonWord(w)),
                   PlainText(<<" ">>) >>
    ELSE [acc EXCEPT ![Len(acc)] = PlainText(acc[Len(acc)].text \o w \o <<" ">>)]

\* the reduce callback
TokenStep(acc, w) ==
    IF IsTagOrMention(w)
    THEN LET index == Len(ReplaceNonWord(w)) + 1 IN
         acc \o << ClickableSpan(Slice(w, 0, index),
                                 IF w[1] = "@" THEN "mention" ELSE "tags",
                                 ReplaceNonWord(w)),
                   PlainText(SliceFrom(w, index) \o <<" ">>) >>
    ELSE [acc EXCEPT ![Len(acc)] = PlainText(acc[Len(acc)].text \o w \o <<" ">>)]

RECURSIVE Reduce(_, _)
Reduce(ws, acc) ==
    IF ws = <<>> THEN acc ELSE Reduce(Tail(ws), TokenStep(acc, Head(ws)))

\* moo.text.split(" ").reduce(..., [""])
tokenizedMooText(text) == Reduce(Split(text, " "), <<PlainText(<<>>)>>)

AdapterAtRest ==
    /\ accounts = InitialAccounts /\ rows = {} /\ nextId = 1 /\ clock = 1
    /\ listening = FALSE /\ notifs = <<>> /\ pc = "start"
    /\ sessionPID = Undefined /\ loadResult = <<>> /\ feed = <<>>
    /\ queue = <<>> /\ outcome = "none" /\ handlers = 0 /\ setups = 1
    /\ call = NoCall /\ sent = 0

InitMoo ==
    /\ AdapterAtRest
    /\ tText \in Texts /\ tOut = <<>> /\ tDone = FALSE
    /\ fFilter = <<>> /\ fMoo = Undefined /\ fShown = FALSE /\ fDone = FALSE

\* the Moo component renders moo.text
RenderMoo ==
    /\ ~tDone
    /\ tOut' = tokenizedMooText(tText)
    /\ tDone' = TRUE
    /\ UNCHANGED <<tText, storeVars, adapterVars, filterVars, apiVars, sessionVars>>

NextMoo == RenderMoo

SpecMoo == InitMoo /\ [][NextMoo]_vars

\* ==================================================================
\* Presentation layer: the Feed filter (index.tsx)
\* ==================================================================
\* A query string is a sequence of pieces: "?", "&", "=", parameter names and
\* values.  location.search is empty or "?" followed by parameters joined by
\* "&", each of them name, name= or name=value.
QueryNames == {"mention", "tags", "q"}
QueryValues == {"carol", "dave"}
QueryParams ==
    {<<n>> : n \in QueryNames} \cup {<<n, "=">> : n \in QueryNames}
        \cup {<<n, "=", v>> : n \in QueryNames, v \in QueryValues}

RECURSIVE JoinParams(_)
JoinParams(ps) ==
    IF ps = <<>> THEN <<>>
    ELSE IF Len(ps) = 1 THEN ps[1]
    ELSE ps[1] \o <<"&">> \o JoinParams(Tail(ps))

Searches ==
    {<<>>} \cup
    {<<"?">> \o JoinParams(ps) : ps \in UNION {[1..n -> QueryParams] : n \in 0..MaxParams}}

\* the posts handed to filterMoos
FeedMoos ==
    {[id |-> 1, account |-> [username |-> u, name |-> "N"], body |-> "b",
      tags |-> t, mentions |-> m] :
        u \in {"bob", "carol"},
        t \in {<<>>, <<"carol">>, <<"dave">>},
        m \in {<<>>, <<"carol">>, <<"dave">>, <<"dave", "carol">>}}

\* the string a sequence of pieces spells
RECURSIVE Spell(_)
Spell(pieces) == IF pieces = <<>> THEN "" ELSE Head(pieces) \o Spell(Tail(pieces))

\* one "name=value" piece of a query: [name, value], cut at the first "="
ParsePair(seg) ==
    LET parts == Split(seg, "=") IN
    [name |-> Spell(parts[1]),
     value |-> Spell(SubSeq(seg, Len(parts[1]) + 2, Len(seg)))]

\* new URLSearchParams(query): the non-empty pieces between "&"
URLSearchParams(query) ==
    MapSeq(ParsePair, SelectSeq(Split(query, "&"), LAMBDA seg : seg /= <<>>))

\* searchParams.get(name): <<value>> of the first pair called name, <<>> for null
Null == <<>>
SearchParamsGet(params, name) ==
    LET hits == SelectSeq(params, LAMBDA p : p.name = name) IN
    IF hits = <<>> THEN Null ELSE <<hits[1].value>>

\* array.includes(x)
Includes(array, x) == \E i \in 1..Len(array) : array[i] = x

\* filterMoos looking at tags before mention
filterMoos_TagsFirst(filter, moo) ==
    LET searchParams == URLSearchParams(SliceFrom(filter, 1))
        searchMention == SearchParamsGet(searchParams, "mention")
        searchTag == SearchParamsGet(searchParams, "tags")
    IN  IF filter = <<>> THEN TRUE
        ELSE IF searchTag /= Null THEN Includes(moo.tags, searchTag[1])
        ELSE IF searchMention /= Null
        THEN moo.account.username = searchMention[1]
                \/ Includes(moo.mentions, searchMention[1])
        ELSE FALSE

\* Feed: searchParams and filterMoos
filterMoos(filter, moo) ==
    LET searchParams == URLSearchParams(SliceFrom(filter, 1))
        searchMention == SearchParamsGet(searchParams, "mention")
        searchTag == SearchParamsGet(searchParams, "tags")
    IN  IF filter = <<>> THEN TRUE
        ELSE IF searchMention /= Null
        THEN moo.account.username = SearchParamsGet(searchParams, "mention")[1]
                \/ Includes(moo.mentions, searchMention[1])
        ELSE IF searchTag /= Null THEN Includes(moo.tags, searchTag[1])
        ELSE FALSE

InitFeed ==
    /\ AdapterAtRest
    /\ tText = <<>> /\ tOut = <<>> /\ tDone = FALSE
    /\ fFilter \in Searches /\ fMoo \in FeedMoos /\ fShown = FALSE /\ fDone = FALSE

\* the Feed component applies filterMoos to a post
FilterMoo ==
    /\ ~fDone
    /\ fShown' = filterMoos(fFilter, fMoo)
    /\ fDone' = TRUE
    /\ UNCHANGED <<fFilter, fMoo, storeVars, adapterVars, tokVars, apiVars, sessionVars>>

NextFeed == FilterMoo

SpecFeed == InitFeed /\ [][NextFeed]_vars

\* ==================================================================
\* Properties of the adapter and the feed (specification Spec)
\* ==================================================================
IsPrefix(a, b) == Len(a) <= Len(b) /\ SubSeq(b, 1, Len(a)) = a
FeedIds == {feed[i].id : i \in 1..Len(feed)}
Occurrences(id) == Cardinality({i \in 1..Len(feed) : feed[i].id = id})
CreatedAt(id) == (CHOOSE r \in rows : r.id = id).created_at
BackendOf(id) == (CHOOSE r \in rows : r.id = id).backend

\* setupDatabase has returned, no notification is on its way and no query of
\* the connection is in flight
Quiescent == pc = "ready" /\ notifs = <<>> /\ queue = <<>>

\* C1: every post another session committed is in the feed once initialize
\* has completed and every notification has been delivered and handled.
C1_RemotePostsConverge ==
    Quiescent => \A r \in rows : r.backend = OtherBackend => r.id \in FeedIds

\* C2: a notification whose channel is not "moo" or whose session is the
\* adapter's own makes the handler issue no query and leaves the feed (and
\* the store) as they are, whatever its payload.
C2_IgnoredNotificationIsNoOp ==
    [][ ( /\ pc = "ready"
          /\ notifs /= <<>>
          /\ notifs' = Tail(notifs)
          /\ (Head(notifs).channel /= "moo" \/ Head(notifs).processId = sessionPID) )
        => (queue' = queue /\ feed' = feed /\ rows' = rows /\ outcome' = outcome) ]_vars

\* a local post's own notification has been delivered and handled, and the
\* post is in the feed once
C2_Witness ==
    /\ Quiescent
    /\ \E r \in rows : r.backend = OwnBackend /\ Occurrences(r.id) = 1

\* C3: a submit that succeeds, with the feed as it was when the submit was
\* dispatched, inserts exactly one row and appends exactly its canonical joined
\* row as the last element of the feed; the earlier elements stay in place.
C3_SubmitAppendsCanonicalRow ==
    [][ ( /\ queue /= <<>>
          /\ Head(queue).kind = "insert"
          /\ queue' = Tail(queue)
          /\ Head(queue).toInsert.account.username \in DOMAIN accounts
          /\ Head(queue).prevMoos = feed )
        => LET t == Head(queue).toInsert
               u == t.account.username
           IN  /\ rows \subseteq rows'
               /\ Cardinality(rows' \ rows) = 1
               /\ \A r \in rows' \ rows :
                     /\ r.id = nextId /\ r.username = u /\ r.body = t.body
                     /\ r.tags = t.tags /\ r.mentions = t.mentions
               /\ feed' = Append(feed,
                     [id |-> nextId,
                      account |-> [username |-> u, name |-> accounts[u].name],
                      body |-> t.body, tags |-> t.tags, mentions |-> t.mentions]) ]_vars

\* a local post sits at the end of a feed that already held another post
C3_Witness ==
    /\ Quiescent
    /\ outcome = "fulfilled"
    /\ Len(feed) >= 2
    /\ BackendOf(feed[Len(feed)].id) = OwnBackend
    /\ BackendOf(feed[1].id) = OtherBackend

\* C4: every change of the feed keeps the previous feed as a prefix.
C4_FeedOnlyGrowsByAppend == [][IsPrefix(feed, feed')]_vars

\* C5: the feed is ordered by the posts' created_at, ascending.
C5_FeedOrderedByCreatedAt ==
    \A i, j \in 1..Len(feed) :
        i < j => CreatedAt(feed[i].id) <= CreatedAt(feed[j].id)

\* C6: no two entries of the feed have the same id.
C6_NoDuplicateIds ==
    \A i, j \in 1..Len(feed) : i /= j => feed[i].id /= feed[j].id

\* C10: a submit whose author references no account fails with a constraint
\* violation that reaches the caller, is not issued again, and leaves the
\* store's posts and the feed unchanged.
C10_UnknownAuthorRejected ==
    [][ ( /\ queue /= <<>>
          /\ Head(queue).kind = "insert"
          /\ Head(queue).toInsert.account.username \notin DOMAIN accounts
          /\ queue' /= queue
          /\ Len(queue') <= Len(queue) )
        => /\ queue' = Tail(queue)
           /\ rows' = rows
           /\ feed' = feed
           /\ notifs' = notifs
           /\ outcome' = "ConstraintViolation" ]_vars

\* a submit by an unknown author has been rejected while posts exist
C10_Witness ==
    /\ outcome = "ConstraintViolation"
    /\ queue = <<>>
    /\ rows /= {}
    /\ feed /= <<>>

\* ==================================================================
\* Properties of the tokenizer (specification SpecMoo)
\* ==================================================================
Sigils == {"@", "#"}
Punctuation == {"!"}
IsAlphanumeric(c) == c \in {"a", "1"}

\* the tokens of a text, cut at every character of seps
SepPositions(text, seps) == {i \in 1..Len(text) : text[i] \in seps}
NthOf(S, n) == CHOOSE i \in S : Cardinality({x \in S : x < i}) = n - 1
TokensOf(text, seps) ==
    LET P == SepPositions(text, seps)
        n == Cardinality(P) + 1
    IN  [k \in 1..n |->
            SubSeq(text,
                   IF k = 1 THEN 1 ELSE NthOf(P, k - 1) + 1,
                   IF k = n THEN Len(text) ELSE NthOf(P, k) - 1)]

\* tokens from..to, each followed by one space
RECURSIVE EachWithSpace(_, _, _)
EachWithSpace(ws, from, to) ==
    IF from > to THEN <<>>
    ELSE ws[from] \o <<" ">> \o EachWithSpace(ws, from + 1, to)

\* The pieces the contract describes for tokens ws, when Marker(w) says which
\* tokens are markers and Stripped(w) is a marker's stripped form: a leading
\* plain run; then per marker a span <sigil + stripped form> and a plain run
\* <rest of the token, a space, the following non-marker tokens and a space
\* after each>.
ContractPieces(ws, Marker(_), Stripped(_)) ==
    LET M == {i \in 1..Len(ws) : Marker(ws[i])}
        k == Cardinality(M)
        at(j) == NthOf(M, j)
        until(j) == IF j = k THEN Len(ws) ELSE at(j + 1) - 1
    IN  [n \in 1..(2 * k + 1) |->
            IF n = 1
            THEN [kind |-> "text",
                  text |-> EachWithSpace(ws, 1, IF k = 0 THEN Len(ws) ELSE at(1) - 1)]
            ELSE LET j == n \div 2
                     w == ws[at(j)]
                     stem == <<w[1]>> \o Stripped(w)
                 IN  IF n % 2 = 0
                     THEN [kind |-> "span", text |-> stem]
                     ELSE [kind |-> "text",
                           text |-> SubSeq(w, Len(stem) + 1, Len(w)) \o <<" ">>
                                    \o EachWithSpace(ws, at(j) + 1, until(j))]]

Shown(out) == [i \in 1..Len(out) |-> [kind |-> out[i].kind, text |-> out[i].text]]

StripToAlphanumeric(w) == SelectSeq(w, IsAlphanumeric)
StripToWordChars(w) == SelectSeq(w, LAMBDA c : IsAlphanumeric(c) \/ c = "_")

MarkerAsClaimed(w) ==
    /\ Len(w) > 1 /\ w[1] \in Sigils
    /\ StartsWith(SubSeq(w, 2, Len(w)), StripToAlphanumeric(w))
MarkerAsAmended(w) ==
    /\ Len(w) > 1 /\ w[1] \in Sigils
    /\ StartsWith(SubSeq(w, 2, Len(w)), StripToWordChars(w))
SigilThenPunctuation(w) ==
    /\ Len(w) > 1 /\ w[1] \in Sigils
    /\ \A i \in 2..Len(w) : w[i] \in Punctuation
MarkerExceptPunctuation(w) == MarkerAsAmended(w) /\ ~SigilThenPunctuation(w)

\* C8 as stated, for the tokens between spaces: a marker's stripped form and
\* its span keep the token's letters and digits only.
C8_TokenizeAsClaimed ==
    tDone => Shown(tOut) =
        ContractPieces(TokensOf(tText, {" "}), MarkerAsClaimed, StripToAlphanumeric)

\* C8 (amended): for a token between single space characters that starts with
\* a sigil, is longer than 1 and whose form stripped to word characters
\* (letters, digits, underscore) is a prefix of the text after the sigil, the
\* output has a span of the sigil plus that prefix, followed by a plain piece
\* of the rest of the token plus one space; every other token, followed by one
\* space, is concatenated onto the current plain-text run.
C8_Tokenize ==
    tDone => Shown(tOut) =
        ContractPieces(TokensOf(tText, {" "}), MarkerAsAmended, StripToWordChars)

\* "hello @alice!" in the model's alphabet: plain "a ", span "@a", plain "! "
C8_Witness ==
    /\ tDone
    /\ tText = <<"a", " ", "@", "a", "!">>
    /\ Shown(tOut) = << [kind |-> "text", text |-> <<"a", " ">>],
                        [kind |-> "span", text |-> <<"@", "a">>],
                        [kind |-> "text", text |-> <<"!", " ">>] >>

\* C9: a token made of a sigil followed by punctuation only is no marker: it
\* yields no span and goes whole, with a trailing space, onto the current
\* plain-text run (all other tokens as the tokenizer's contract says).
C9_SigilThenPunctuationIsPlain ==
    tDone => Shown(tOut) =
        ContractPieces(TokensOf(tText, {" "}), MarkerExceptPunctuation, StripToWordChars)

\* ==================================================================
\* Properties of the feed filter (specification SpecFeed)
\* ==================================================================
\* the parameters of the query, read off the string: the pieces between "&"
\* after the leading "?", each with the text before and after its "="
QuerySegments == TokensOf(SubSeq(fFilter, 2, Len(fFilter)), {"&"})
SegmentName(seg) == TokensOf(seg, {"="})[1]
SegmentValue(seg) == SubSeq(seg, Len(SegmentName(seg)) + 2, Len(seg))
SegmentsNamed(n) ==
    {i \in 1..Len(QuerySegments) : SegmentName(QuerySegments[i]) = <<n>>}
HasParam(n) == SegmentsNamed(n) /= {}
\* the value of the (first) parameter called n
ParamValue(n) == SegmentValue(QuerySegments[NthOf(SegmentsNamed(n), 1)])
\* a string as the pieces of a query that spell it
AsPieces(str) == IF str = "" THEN <<>> ELSE <<str>>
Holds(array, v) == \E i \in 1..Len(array) : AsPieces(array[i]) = v

\* C7: a post is shown iff the query string is empty, or the query has a
\* mention parameter X and the post's author is X or its mentions contain X,
\* or the query has no mention parameter but a tags parameter X and the post's
\* tags contain X (a repeated parameter counts with its first value).
C7_FilterContract ==
    fDone =>
        ( fShown <=>
            \/ fFilter = <<>>
            \/ /\ fFilter /= <<>>
               /\ HasParam("mention")
               /\ \/ AsPieces(fMoo.account.username) = ParamValue("mention")
                  \/ Holds(fMoo.mentions, ParamValue("mention"))
            \/ /\ fFilter /= <<>>
               /\ ~HasParam("mention")
               /\ HasParam("tags")
               /\ Holds(fMoo.tags, ParamValue("tags")) )

\* bob's post mentioning carol, tagged carol, under ?mention=dave&tags=carol:
\* both parameters are present and only the mention rule applies
C7_Witness ==
    /\ fDone
    /\ fFilter = <<"?", "mention", "=", "dave", "&", "tags", "=", "carol">>
    /\ fMoo.account.username = "bob"
    /\ fMoo.mentions = <<"carol">>
    /\ fMoo.tags = <<"carol">>
    /\ fShown = FALSE

\* ==================================================================
\* Properties of the account calls (specification SpecAccounts)
\* ==================================================================
\* hash is the hash of password under the salt it carries
HashOf(hash, password) == hash.digest = hash.salt \o "$" \o password

\* C11: createAccount with a username that already exists fails with a
\* constraint violation and leaves the accounts table unchanged, so every
\* password authenticates against that username exactly as it did before.
C11_DuplicateUsernameRejected ==
    [][ ( /\ call'.op = "createAccount"
          /\ call' /= call
          /\ call'.username \in DOMAIN accounts )
        => /\ call'.error = "ConstraintViolation"
           /\ accounts' = accounts
           /\ \A p \in Passwords :
                 AuthenticateIn(accounts', call'.username, p)
                    = AuthenticateIn(accounts, call'.username, p) ]_vars

\* createAccount("alice", ..., "pw_other") has failed; alice still logs in
\* with pw_alice and not with pw_other
C11_Witness ==
    /\ call.op = "createAccount"
    /\ call.username = "alice"
    /\ call.password = "pw_other"
    /\ call.error = "ConstraintViolation"
    /\ accounts["alice"].name = "Alice"
    /\ AuthenticateIn(accounts, "alice", "pw_alice") = <<[username |-> "alice", name |-> "Alice"]>>
    /\ AuthenticateIn(accounts, "alice", "pw_other") = <<>>

\* C12: authenticate returns the account's username and name, and nothing
\* else, iff the account exists and its stored hash is the hash of the
\* password; otherwise it returns undefined; it never fails and never changes
\* the store.
C12_AuthenticateContract ==
    [][ (call'.op = "authenticate" /\ call' /= call)
        => LET u == call'.username
               match == u \in DOMAIN accounts
                           /\ HashOf(accounts[u].pw_hash, call'.password)
           IN  /\ call'.error = ""
               /\ accounts' = accounts
               /\ rows' = rows
               /\ match => /\ Len(call'.result) = 1
                           /\ DOMAIN call'.result[1] = {"username", "name"}
                           /\ call'.result[1].username = u
                           /\ call'.result[1].name = accounts[u].name
               /\ ~match => call'.result = <<>> ]_vars

\* an account created with pw_other has been authenticated with it
C12_Witness ==
    /\ call.op = "authenticate"
    /\ call.username = "carol"
    /\ call.password = "pw_other"
    /\ call.result = <<[username |-> "carol", name |-> "Name"]>>

\* ==================================================================
\* Properties of repeated setupDatabase calls (specification SpecTwice)
\* ==================================================================
\* C13: whenever the initial load runs, after any inserts, it returns every
\* stored post exactly once, with its fields, in creation order (the order in
\* which the serial ids were handed out).
C13_LoadReturnsEveryPostOnceInOrder ==
    [][ (pc = "listening" /\ pc' = "loading")
        => /\ Len(loadResult') = Cardinality(rows)
           /\ \A r \in rows :
                 \E i \in 1..Len(loadResult') :
                    /\ loadResult'[i].id = r.id
                    /\ loadResult'[i].body = r.body
                    /\ loadResult'[i].account_username = r.username
                    /\ \A j \in 1..Len(loadResult') :
                          loadResult'[j].id = r.id => j = i
           /\ \A i, j \in 1..Len(loadResult') :
                 i < j => loadResult'[i].id < loadResult'[j].id ]_vars

\* a load of the second setupDatabase call holds a post of another session
\* followed by a post inserted through useMoos
C13_Witness ==
    /\ pc = "loading"
    /\ setups = 2
    /\ Len(loadResult) >= 2
    /\ \E i, j \in 1..Len(loadResult) :
          /\ i < j
          /\ BackendOf(loadResult[i].id) = OtherBackend
          /\ BackendOf(loadResult[j].id) = OwnBackend

\* C14: a second call of initialize does not error, leaves accounts and posts
\* untouched and leaves one trigger and one subscription, so that one
\* notification of an insert starts at most one fetch-and-append.
C14_InitializeIdempotent ==
    [][ /\ setups' > setups => outcome' /= "AlreadyConnected"
        /\ (setups > 1 /\ pc' /= pc) => (accounts' = accounts /\ rows' = rows)
        /\ (notifs /= <<>> /\ notifs' = Tail(notifs))
              => Len(queue') <= Len(queue) + 1 ]_vars

\* ==================================================================
\* Properties of concurrent submits (specification Spec)
\* ==================================================================
\* C15: once no submit is in flight any more and every INSERT so far has
\* succeeded, the feed holds every post submitted through useMoos exactly once,
\* and those posts stand in the order in which their submits completed (on the
\* one connection: the order of their ids).
C15_ConcurrentSubmitsAllAppended ==
    (InsertsInFlight = 0 /\ Cardinality(rows) = nextId - 1)
    => /\ \A r \in rows : r.backend = OwnBackend => Occurrences(r.id) = 1
       /\ \A i, j \in 1..Len(feed) :
             (/\ i < j
              /\ BackendOf(feed[i].id) = OwnBackend
              /\ BackendOf(feed[j].id) = OwnBackend) => feed[i].id < feed[j].id

\* ==================================================================
\* Properties of a local submit and its own notification (specification Spec)
\* ==================================================================
\* the notification of post `id` is no longer on its way and no query is in
\* flight: the handler has seen it (or nobody listened)
NotificationHandled(id) ==
    /\ queue = <<>>
    /\ \A k \in 1..Len(notifs) : notifs[k].payload /= IdToText(id)

\* C16 as stated: once a post submitted through useMoos is stored and the
\* notification its own insert caused has been handled, the feed holds two
\* entries with its id.
C16_OwnNotificationDuplicates ==
    \A r \in rows :
       (r.backend = OwnBackend /\ pc = "ready" /\ NotificationHandled(r.id))
       => Occurrences(r.id) = 2

\* C16: the handler ignores the notification the adapter's own insert caused
\* (its processId is the recorded session pid), so the feed never holds two
\* entries with the id of a post submitted through useMoos.
C16_OwnNotificationNeverDuplicates ==
    \A r \in rows : r.backend = OwnBackend => Occurrences(r.id) <= 1

\* two posts were submitted one after the other, both own notifications have
\* been handled, and each post is in the feed once
C16_Witness ==
    /\ pc = "ready"
    /\ \E r1, r2 \in rows :
          /\ r1.id < r2.id
          /\ r1.backend = OwnBackend /\ r2.backend = OwnBackend
          /\ NotificationHandled(r1.id) /\ NotificationHandled(r2.id)
          /\ Occurrences(r1.id) = 1 /\ Occurrences(r2.id) = 1

\* ==================================================================
\* Properties of the feed's entries (specification SpecNotify)
\* ==================================================================
\* the feed entry e has the id, author, body, tags and mentions of a stored post
IsStoredPost(e) ==
    /\ DOMAIN e = {"id", "account", "body", "tags", "mentions"}
    /\ \E r \in rows :
          /\ e.id = r.id
          /\ e.account = [username |-> r.username, name |-> accounts[r.username].name]
          /\ e.body = r.body
          /\ e.tags = r.tags
          /\ e.mentions = r.mentions

EveryEntryIsStored == \A i \in 1..Len(feed) : IsStoredPost(feed[i])

\* C17: every feed entry has the id, author, body, tags and mentions of a
\* stored post; a notification with an empty payload starts no query and
\* appends nothing, and the fetch for a payload that is not a number or names
\* no stored row appends nothing.
C17_FeedEntriesAreStoredPosts ==
    [][ /\ EveryEntryIsStored'
        /\ (notifs /= <<>> /\ notifs' = Tail(notifs) /\ Head(notifs).payload = <<>>)
              => (queue' = queue /\ feed' = feed)
        /\ (/\ queue /= <<>> /\ queue' = Tail(queue)
            /\ Head(queue).kind = "select"
            /\ (Head(queue).id = NaN \/ \A r \in rows : r.id /= Head(queue).id))
              => feed' = feed ]_vars

\* fetches for a payload that is not a number and for one that names no row
\* have both failed, and a post of another session was appended
C17_Witness ==
    /\ sent = MaxNotify
    /\ notifs = <<>> /\ queue = <<>>
    /\ outcome \in {"QueryError", "TypeError"}
    /\ Len(feed) = 1
    /\ rows /= {}

\* ==================================================================
\* Content preservation of the tokenizer (specification SpecMoo)
\* ==================================================================
\* the texts of the pieces, concatenated in order
RECURSIVE ConcatText(_)
ConcatText(out) ==
    IF out = <<>> THEN <<>> ELSE Head(out).text \o ConcatText(Tail(out))

\* the tokens, each followed by one space, concatenated in order
RECURSIVE ConcatTokens(_)
ConcatTokens(ws) ==
    IF ws = <<>> THEN <<>> ELSE Head(ws) \o <<" ">> \o ConcatTokens(Tail(ws))

\* C18: the texts of all output pieces, concatenated in order, are the body's
\* space-separated tokens each followed by one space, which is the body
\* followed by one space: nothing is dropped, duplicated or reordered.
C18_TokenizePreservesContent ==
    tDone => /\ ConcatText(tOut) = ConcatTokens(TokensOf(tText, {" "}))
             /\ ConcatText(tOut) = tText \o <<" ">>

\* a body with two consecutive spaces and a marker has been rendered
C18_Witness ==
    /\ tDone
    /\ tText = <<"a", " ", " ", "#", "1">>
    /\ Len(tOut) = 3
    /\ tOut[1].text = <<"a", " ", " ">>
    /\ tOut[2].kind = "span" /\ tOut[2].text = <<"#", "1">>
    /\ tOut[3].text = <<" ">>

====
